---- MODULE Spec2Model ----
(***************************************************************************)
(* Model of the mcp-job-search web client (src/mcp-client/client.py) and   *)
(* of the extract_profile tool of its server (src/jobSearch/jobSearch.py). *)
(*                                                                         *)
(* main() connects the process-wide MCPWebClient to the server script and  *)
(* then serves upload requests; upload_file() is one request handler run.  *)
(*                                                                         *)
(* Text is modelled as a sequence of tokens (punctuation, string literal,  *)
(* number literal, bare word, whitespace, code fence), so that fence       *)
(* stripping and JSON parsing are computed and can fail.  Descriptions of  *)
(* job entries are sequences of one-character strings, so that slicing to  *)
(* 300 characters is computed on real lengths.                             *)
(***************************************************************************)
EXTENDS Integers, Sequences, FiniteSets, TLC

VARIABLES
    \* ---- main / MCPWebClient ----
    mainPc,        \* position of main(): start, connect, validated, spawned,
                   \* entered, initialized, serving, exited
    argv,          \* sys.argv[1:], a sequence of script paths
    session,       \* MCPWebClient.session: "None" or "ClientSession"
    exit_stack,    \* MCPWebClient.exit_stack: contexts entered, oldest first
    child,         \* the server process: "none", "running", "terminated"
    handshake,     \* "none", "acked" (session.initialize() returned)
    toolsListed,   \* session.list_tools() returned
    sessionCalls,  \* requests issued on the session, oldest first
    mainError,     \* how main() ended: "none", "usage", "ValueError", ...
    \* ---- upload_file ----
    upPc,          \* position of the handler
    extracted_text,\* response.content[0].text, a token sequence
    parsed,        \* the value bound to parsed
    skills, location, experience, jobRole,
    params,        \* the outbound query: [query, country]
    resp,          \* what requests.get / r.json() produced
    pending,       \* job_json.get("jobs_results", [])[:5], not yet iterated
    jobs_data,     \* the list being filled
    jobLog,        \* what the job stage printed: "none", "failed" (line 160),
                   \* "error" (line 162)
    result         \* the handler's response

connVars == <<mainPc, argv, session, exit_stack, child, handshake, toolsListed,
              sessionCalls, mainError>>
upVars == <<upPc, extracted_text, parsed, skills, location, experience, jobRole,
            params, resp, pending, jobs_data, jobLog, result>>
vars == <<mainPc, argv, session, exit_stack, child, handshake, toolsListed,
          sessionCalls, mainError, upPc, extracted_text, parsed, skills,
          location, experience, jobRole, params, resp, pending, jobs_data,
          jobLog, result>>

----------------------------------------------------------------------------
(* Bounds and program constants *)

\* longest provider result list offered to the handler
MaxResults == 6

\* client.py:151  [:5]
JobCap == 5

\* client.py:157  [:300]
DescLimit == 300

Min(a, b) == IF a <= b THEN a ELSE b

----------------------------------------------------------------------------
(* Script paths: str.endswith *)

EndsWith(s, suffix) ==
    /\ Len(s) >= Len(suffix)
    /\ SubSeq(s, Len(s) - Len(suffix) + 1, Len(s)) = suffix

PathPy  == <<"s", ".", "p", "y">>
PathJs  == <<"s", ".", "j", "s">>
PathRb  == <<"s", ".", "r", "b">>
PathPyc == <<"s", ".", "p", "y", "c">>
PathBare == <<"p", "y">>

ArgvSet == { <<>>, <<PathPy>>, <<PathJs>>, <<PathRb>>, <<PathPyc>>, <<PathBare>> }

is_python(p) == EndsWith(p, <<".", "p", "y">>)
is_js(p) == EndsWith(p, <<".", "j", "s">>)

----------------------------------------------------------------------------
(* main() and MCPWebClient.connect_to_server *)

\* main: the argument count check; usage error exits before connecting.
MainStart ==
    /\ mainPc = "start"
    /\ IF Len(argv) < 1
         THEN /\ mainPc' = "exited"
              /\ mainError' = "usage"
         ELSE /\ mainPc' = "connect"
              /\ UNCHANGED mainError
    /\ UNCHANGED <<argv, session, exit_stack, child, handshake, toolsListed,
                   sessionCalls>>
    /\ UNCHANGED upVars

\* variant of ValidateScript that lets every path through
ValidateScript_NoCheck ==
    /\ mainPc = "connect"
    /\ mainPc' = "validated"
    /\ UNCHANGED <<argv, session, exit_stack, child, handshake, toolsListed,
                   sessionCalls, mainError>>
    /\ UNCHANGED upVars

\* connect_to_server: the extension check; ValueError propagates out of main.
ValidateScript ==
    /\ mainPc = "connect"
    /\ IF ~(is_python(argv[1]) \/ is_js(argv[1]))
         THEN /\ mainPc' = "exited"
              /\ mainError' = "ValueError"
         ELSE /\ mainPc' = "validated"
              /\ UNCHANGED mainError
    /\ UNCHANGED <<argv, session, exit_stack, child, handshake, toolsListed,
                   sessionCalls>>
    /\ UNCHANGED upVars

\* exit_stack.enter_async_context(stdio_client(...)): the child is spawned and
\* the transport is registered, or the spawn raises and nothing is registered.
SpawnTransport ==
    /\ mainPc = "validated"
    /\ \E ok \in BOOLEAN :
         IF ok
           THEN /\ child' = "running"
                /\ exit_stack' = Append(exit_stack, "stdio_client")
                /\ mainPc' = "spawned"
                /\ UNCHANGED mainError
           ELSE /\ mainPc' = "exited"
                /\ mainError' = "SpawnError"
                /\ UNCHANGED <<child, exit_stack>>
    /\ UNCHANGED <<argv, session, handshake, toolsListed, sessionCalls>>
    /\ UNCHANGED upVars

\* self.session = await exit_stack.enter_async_context(ClientSession(...))
EnterSession ==
    /\ mainPc = "spawned"
    /\ exit_stack' = Append(exit_stack, "ClientSession")
    /\ session' = "ClientSession"
    /\ mainPc' = "entered"
    /\ UNCHANGED <<argv, child, handshake, toolsListed, sessionCalls, mainError>>
    /\ UNCHANGED upVars

\* await self.session.initialize(): acknowledged, or it raises out of main.
Initialize ==
    /\ mainPc = "entered"
    /\ sessionCalls' = Append(sessionCalls, "initialize")
    /\ \E ok \in BOOLEAN :
         IF ok
           THEN /\ handshake' = "acked"
                /\ mainPc' = "initialized"
                /\ UNCHANGED mainError
           ELSE /\ mainPc' = "exited"
                /\ mainError' = "HandshakeError"
                /\ UNCHANGED handshake
    /\ UNCHANGED <<argv, session, exit_stack, child, toolsListed>>
    /\ UNCHANGED upVars

\* await self.session.list_tools(), then main calls app.run.
ListTools ==
    /\ mainPc = "initialized"
    /\ sessionCalls' = Append(sessionCalls, "list_tools")
    /\ \E ok \in BOOLEAN :
         IF ok
           THEN /\ toolsListed' = TRUE
                /\ mainPc' = "serving"
                /\ UNCHANGED mainError
           ELSE /\ mainPc' = "exited"
                /\ mainError' = "ListToolsError"
                /\ UNCHANGED toolsListed
    /\ UNCHANGED <<argv, session, exit_stack, child, handshake>>
    /\ UNCHANGED upVars

----------------------------------------------------------------------------
(* Text as tokens *)

P(c) == [t |-> "punct", s |-> c]
S(x) == [t |-> "str", s |-> x]
N(x) == [t |-> "num", s |-> x]
W(x) == [t |-> "word", s |-> x]
WS == [t |-> "ws", s |-> " "]
\* a code fence, three backquotes
FENCE == [t |-> "fence", s |-> "fence"]

\* str.replace(fence + "json", ""): drop every fence immediately followed by json
RECURSIVE StripFenceJson(_)
StripFenceJson(ts) ==
    IF Len(ts) = 0 THEN ts
    ELSE IF Len(ts) >= 2 /\ ts[1].t = "fence" /\ ts[2] = W("json")
      THEN StripFenceJson(SubSeq(ts, 3, Len(ts)))
      ELSE <<ts[1]>> \o StripFenceJson(Tail(ts))

\* str.replace(fence, "")
StripFence(ts) == SelectSeq(ts, LAMBDA t : t.t # "fence")

RECURSIVE LStrip(_)
LStrip(ts) ==
    IF Len(ts) > 0 /\ ts[1].t = "ws" THEN LStrip(Tail(ts)) ELSE ts

RECURSIVE RStrip(_)
RStrip(ts) ==
    IF Len(ts) > 0 /\ ts[Len(ts)].t = "ws"
      THEN RStrip(SubSeq(ts, 1, Len(ts) - 1))
      ELSE ts

\* str.strip()
Strip(ts) == RStrip(LStrip(ts))

\* client.py:115-119
CleanText(ts) == Strip(StripFence(StripFenceJson(ts)))

----------------------------------------------------------------------------
(* JSON values.  A value is [kind, s, items, members]: kind is one of str,  *)
(* num, null, bool, list, obj; s is the literal of a scalar; items are the  *)
(* scalars of a list; members are the key/value pairs of an object in text  *)
(* order.  The texts of RawTexts nest no deeper than an object of lists of  *)
(* scalars, and the parser covers that grammar.                             *)

ScalarV(kind, s) == [kind |-> kind, s |-> s, items |-> <<>>, members |-> <<>>]
StrV(s) == ScalarV("str", s)
ListV(items) == [kind |-> "list", s |-> "", items |-> items, members |-> <<>>]
ObjV(members) == [kind |-> "obj", s |-> "", items |-> <<>>, members |-> members]
NullV == ScalarV("null", "null")
\* a local of upload_file not yet bound
Unset == ScalarV("unset", "")

IsPunct(ts, i, c) == i <= Len(ts) /\ ts[i].t = "punct" /\ ts[i].s = c

IsScalarTok(ts, i) ==
    /\ i <= Len(ts)
    /\ \/ ts[i].t \in {"str", "num"}
       \/ ts[i].t = "word" /\ ts[i].s \in {"null", "true", "false"}

ScalarOf(tok) ==
    ScalarV(IF tok.t = "str" THEN "str"
            ELSE IF tok.t = "num" THEN "num"
            ELSE IF tok.s = "null" THEN "null" ELSE "bool",
            tok.s)

ParseFail == [ok |-> FALSE, next |-> 0, val |-> NullV]

\* the items of a non-empty list, i at an item
RECURSIVE ParseItems(_, _, _)
ParseItems(ts, i, acc) ==
    IF ~IsScalarTok(ts, i) THEN ParseFail
    ELSE LET acc2 == Append(acc, ScalarOf(ts[i])) IN
         IF IsPunct(ts, i + 1, "]")
           THEN [ok |-> TRUE, next |-> i + 2, val |-> ListV(acc2)]
         ELSE IF IsPunct(ts, i + 1, ",") THEN ParseItems(ts, i + 2, acc2)
         ELSE ParseFail

\* a scalar or a list of scalars starting at i
ParseInner(ts, i) ==
    IF IsScalarTok(ts, i)
      THEN [ok |-> TRUE, next |-> i + 1, val |-> ScalarOf(ts[i])]
    ELSE IF IsPunct(ts, i, "[")
      THEN IF IsPunct(ts, i + 1, "]")
             THEN [ok |-> TRUE, next |-> i + 2, val |-> ListV(<<>>)]
             ELSE ParseItems(ts, i + 1, <<>>)
    ELSE ParseFail

\* the members of a non-empty object, i at a key
RECURSIVE ParseMembers(_, _, _)
ParseMembers(ts, i, acc) ==
    IF ~(i <= Len(ts) /\ ts[i].t = "str" /\ IsPunct(ts, i + 1, ":"))
      THEN ParseFail
    ELSE LET v == ParseInner(ts, i + 2) IN
         IF ~v.ok THEN ParseFail
         ELSE LET acc2 == Append(acc, [k |-> ts[i].s, v |-> v.val]) IN
              IF IsPunct(ts, v.next, "}")
                THEN [ok |-> TRUE, next |-> v.next + 1, val |-> ObjV(acc2)]
              ELSE IF IsPunct(ts, v.next, ",")
                THEN ParseMembers(ts, v.next + 1, acc2)
              ELSE ParseFail

ParseTop(ts) ==
    IF IsPunct(ts, 1, "{")
      THEN IF IsPunct(ts, 2, "}")
             THEN [ok |-> TRUE, next |-> 3, val |-> ObjV(<<>>)]
             ELSE ParseMembers(ts, 2, <<>>)
      ELSE ParseInner(ts, 1)

\* json.loads: whitespace between tokens is insignificant, the whole text
\* must be one value; [ok |-> FALSE] stands for the exception.
json_loads(text) ==
    LET ts == SelectSeq(text, LAMBDA t : t.t # "ws")
        r == ParseTop(ts)
    IN IF r.ok /\ r.next = Len(ts) + 1
         THEN [ok |-> TRUE, val |-> r.val]
         ELSE [ok |-> FALSE, val |-> NullV]

\* dict.get(key, default); the last of duplicate keys wins in json.loads
Get(obj, key, default) ==
    LET idx == { i \in 1..Len(obj.members) : obj.members[i].k = key } IN
    IF idx = {} THEN default
    ELSE obj.members[CHOOSE i \in idx : \A j \in idx : j <= i].v

\* truth value of a non-list JSON value in Python
Truthy(v) ==
    CASE v.kind = "str" -> v.s # ""
      [] v.kind = "num" -> v.s # "0"
      [] v.kind = "bool" -> v.s = "true"
      [] v.kind = "null" -> FALSE
      [] v.kind = "obj" -> Len(v.members) > 0
      [] OTHER -> Len(v.items) > 0

\* client.py:124, the value substituted when json.loads raises
DefaultParsed ==
    ObjV(<< [k |-> "skills", v |-> ListV(<<StrV("N/A")>>)],
            [k |-> "location", v |-> StrV("N/A")],
            [k |-> "experience", v |-> StrV("N/A")],
            [k |-> "jobRole", v |-> StrV("N/A")] >>)

\* jobSearch.py:63-75, the tool: parse raw.strip() with no fence removal and
\* return the value, or the error form carrying raw.  No call_tool is issued
\* by client.py, so no action of the client applies it.
extract_profile(raw) ==
    LET r == json_loads(Strip(raw)) IN
    IF r.ok THEN [error |-> "", raw |-> <<>>, profile |-> r.val]
    ELSE [error |-> "Claude did not return valid JSON", raw |-> raw,
          profile |-> NullV]

----------------------------------------------------------------------------
(* The texts the model's reply is drawn from *)

TextFull ==
    << P("{"), S("skills"), P(":"), P("["), S("Go"), P(","), S("SQL"), P("]"),
       P(","), S("location"), P(":"), S("Berlin"),
       P(","), S("experience"), P(":"), S("5y"),
       P(","), S("jobRole"), P(":"), S("Engineer"), P("}") >>

TextFenced ==
    << FENCE, W("json"), WS,
       P("{"), S("skills"), P(":"), S("Go"),
       P(","), S("location"), P(":"), S("N/A"),
       P(","), S("experience"), P(":"), S("5y"),
       P(","), S("jobRole"), P(":"), S("N/A"), P("}"),
       WS, FENCE >>

TextSpecExample ==
    << P("{"), S("skills"), P(":"), S("Go"),
       P(","), S("experience"), P(":"), S("5y"),
       P(","), S("location"), P(":"), S("N/A"),
       P(","), S("jobTitle"), P(":"), S("Engineer"), P("}") >>

TextNullSkills ==
    << P("{"), S("skills"), P(":"), W("null"),
       P(","), S("location"), P(":"), S("Paris"),
       P(","), S("jobRole"), P(":"), S("N/A"), P("}") >>

TextZeroSkills ==
    << WS, P("{"), S("skills"), P(":"), N("0"),
       P(","), S("jobRole"), P(":"), S("Engineer"),
       P(","), S("location"), P(":"), S("N/A"), P("}"), WS >>

TextEmptyList ==
    << P("{"), S("skills"), P(":"), P("["), P("]"),
       P(","), S("jobRole"), P(":"), S("Software Engineer"),
       P(","), S("location"), P(":"), S("us"), P("}") >>

TextEmptyObj == << P("{"), P("}") >>
TextNotJson == << W("not"), WS, W("json") >>
TextEmpty == << >>
TextArray == << P("["), S("Go"), P("]") >>
TextNumber == << N("5") >>
TextNull == << W("null") >>
TextTruncated ==
    << P("{"), S("skills"), P(":"), P("["), S("Go"), P("]"), P(",") >>

RawTexts ==
    { TextFull, TextFenced, TextSpecExample, TextNullSkills, TextZeroSkills,
      TextEmptyList, TextEmptyObj, TextNotJson, TextEmpty, TextArray,
      TextNumber, TextNull, TextTruncated }

----------------------------------------------------------------------------
(* The search provider's answers *)

NA == <<"N", "/", "A">>
Hash == <<"#">>
Ellipsis == <<".", ".", ".">>
Digits == <<"0", "1", "2", "3", "4", "5", "6", "7", "8", "9">>
Letters == <<"a", "b", "c", "d", "e", "f", "g">>

TitleOf(i) == <<"T", Digits[i + 1]>>
DescOfLen(n) == [i \in 1..n |-> Letters[(i % 7) + 1]]

EntryVariants ==
    {"full", "empty", "nodesc", "emptydesc", "exact", "long", "vlong",
     "nulldesc", "notdict"}

\* the entry at position i of a result list, of the given variant
Entry(i, v) ==
    [ isDict |-> v # "notdict",
      keys |-> CASE v \in {"empty", "notdict"} -> {}
                 [] v = "nodesc" -> {"title", "company_name", "location",
                                     "share_link"}
                 [] OTHER -> {"title", "company_name", "location",
                              "share_link", "description"},
      title |-> TitleOf(i),
      company_name |-> <<"C", Digits[i + 1]>>,
      location |-> <<"L", Digits[i + 1]>>,
      share_link |-> <<"/", Digits[i + 1]>>,
      description |->
          [ null |-> v = "nulldesc",
            chars |-> CASE v = "exact" -> DescOfLen(DescLimit)
                        [] v = "long" -> DescOfLen(DescLimit + 1)
                        [] v = "vlong" -> DescOfLen(DescLimit + 4)
                        [] v = "emptydesc" -> <<>>
                        [] OTHER -> DescOfLen(i + 1) ] ]

\* a result list of n entries, all full but the one at position p
ResultsOf(n, p, v) == [i \in 1..n |-> Entry(i, IF i = p THEN v ELSE "full")]

ResultLists ==
    { ResultsOf(n, 0, "full") : n \in 0..MaxResults }
    \cup { ResultsOf(x[1], x[2], x[3]) :
             x \in { y \in (1..MaxResults) \X (1..MaxResults) \X EntryVariants :
                       y[2] <= y[1] } }

\* exc: requests.get raised; status: r.status_code; json: what r.json()
\* gives ("bad" raises, "list" is a JSON array, "dict" a JSON object);
\* hasResults: the object has the key jobs_results
Responses ==
    { [exc |-> TRUE, status |-> 0, json |-> "bad", hasResults |-> FALSE,
       results |-> <<>>],
      [exc |-> FALSE, status |-> 500, json |-> "bad", hasResults |-> FALSE,
       results |-> <<>>],
      [exc |-> FALSE, status |-> 200, json |-> "bad", hasResults |-> FALSE,
       results |-> <<>>],
      [exc |-> FALSE, status |-> 200, json |-> "list", hasResults |-> FALSE,
       results |-> <<>>],
      [exc |-> FALSE, status |-> 200, json |-> "dict", hasResults |-> FALSE,
       results |-> <<>>] }
    \cup { [exc |-> FALSE, status |-> 200, json |-> "dict",
            hasResults |-> TRUE, results |-> r] : r \in ResultLists }

NoResponse ==
    [exc |-> FALSE, status |-> 0, json |-> "bad", hasResults |-> FALSE,
     results |-> <<>>]

----------------------------------------------------------------------------
(* upload_file *)

NoResult ==
    [kind |-> "none", status |-> 0, error |-> "", raw |-> <<>>,
     skills |-> Unset, location |-> Unset, experience |-> Unset,
     jobRole |-> Unset, jobs |-> <<>>]

ErrorResult(status, msg) == [NoResult EXCEPT !.kind = "error", !.status = status,
                                             !.error = msg]

\* an exception no handler catches: Flask answers 500
CrashResult == [NoResult EXCEPT !.kind = "crash", !.status = 500]

\* client.py:65-70, the two request checks
Receive ==
    /\ mainPc = "serving"
    /\ upPc = "idle"
    /\ \E req \in {"nofile", "emptyname", "file"} :
         CASE req = "nofile" ->
                /\ result' = ErrorResult(400, "No file uploaded")
                /\ upPc' = "done"
           [] req = "emptyname" ->
                /\ result' = ErrorResult(400, "Empty filename")
                /\ upPc' = "done"
           [] OTHER ->
                /\ upPc' = "received"
                /\ UNCHANGED result
    /\ UNCHANGED <<extracted_text, parsed, skills, location, experience,
                   jobRole, params, resp, pending, jobs_data, jobLog>>
    /\ UNCHANGED connVars

\* client.py:73-112: the file is uploaded and the model is asked directly
\* through the Anthropic client; either call may raise, and an empty
\* content list gives the empty text.  Nothing is sent on the session.
AskModel ==
    /\ upPc = "received"
    /\ \/ /\ result' = CrashResult
          /\ upPc' = "done"
          /\ UNCHANGED extracted_text
       \/ \E text \in RawTexts :
            /\ extracted_text' = text
            /\ upPc' = "extracted"
            /\ UNCHANGED result
    /\ UNCHANGED <<parsed, skills, location, experience, jobRole, params,
                   resp, pending, jobs_data, jobLog>>
    /\ UNCHANGED connVars

\* client.py:115-124
ParseText ==
    /\ upPc = "extracted"
    /\ LET r == json_loads(CleanText(extracted_text)) IN
         parsed' = IF r.ok THEN r.val ELSE DefaultParsed
    /\ upPc' = "parsed"
    /\ UNCHANGED <<extracted_text, skills, location, experience, jobRole,
                   params, resp, pending, jobs_data, jobLog, result>>
    /\ UNCHANGED connVars

\* client.py:129-130
CoerceSkills(v) ==
    IF v.kind = "list" THEN v
    ELSE IF Truthy(v) THEN ListV(<<v>>) ELSE ListV(<<StrV("N/A")>>)

\* client.py:128-134; .get on a value that is not a dict raises
\* AttributeError, which nothing catches.
ExtractFields ==
    /\ upPc = "parsed"
    /\ IF parsed.kind # "obj"
         THEN /\ result' = CrashResult
              /\ upPc' = "done"
              /\ UNCHANGED <<skills, location, experience, jobRole>>
         ELSE /\ skills' = CoerceSkills(Get(parsed, "skills",
                                            ListV(<<StrV("N/A")>>)))
              /\ location' = Get(parsed, "location", StrV("N/A"))
              /\ experience' = Get(parsed, "experience", StrV("N/A"))
              /\ jobRole' = Get(parsed, "jobRole", StrV("N/A"))
              /\ upPc' = "fields"
              /\ UNCHANGED result
    /\ UNCHANGED <<extracted_text, parsed, params, resp, pending, jobs_data,
                   jobLog>>
    /\ UNCHANGED connVars

\* variant of QueryTerm without the default
QueryTerm_NoDefault(role) == role

\* client.py:139
QueryTerm(role) == IF role # StrV("N/A") THEN role ELSE StrV("Software Engineer")

\* client.py:140
CountryHint(loc) == IF loc # StrV("N/A") THEN loc ELSE StrV("us")

\* client.py:137-145
BuildParams ==
    /\ upPc = "fields"
    /\ params' = [query |-> QueryTerm(jobRole), country |-> CountryHint(location)]
    /\ jobs_data' = <<>>
    /\ upPc' = "query"
    /\ UNCHANGED <<extracted_text, parsed, skills, location, experience,
                   jobRole, resp, pending, jobLog, result>>
    /\ UNCHANGED connVars

\* variant of FirstJobs that takes the whole list
FirstJobs_NoCap(results) == results

\* client.py:151  [:5]
FirstJobs(results) == SubSeq(results, 1, Min(Len(results), JobCap))

\* client.py:147-151: the request, the status check, r.json() and the slice
\* of jobs_results; an exception raised by any of them is caught at line 161.
JobRequest ==
    /\ upPc = "query"
    /\ \E r \in Responses :
         /\ resp' = r
         /\ IF r.exc
              THEN /\ jobLog' = "error"
                   /\ pending' = <<>>
                   /\ upPc' = "respond"
            ELSE IF r.status # 200
              THEN /\ jobLog' = "failed"
                   /\ pending' = <<>>
                   /\ upPc' = "respond"
            ELSE IF r.json # "dict"
              THEN /\ jobLog' = "error"
                   /\ pending' = <<>>
                   /\ upPc' = "respond"
            ELSE /\ jobLog' = "none"
                 /\ pending' = FirstJobs(IF r.hasResults THEN r.results ELSE <<>>)
                 /\ upPc' = "loop"
    /\ UNCHANGED <<extracted_text, parsed, skills, location, experience,
                   jobRole, params, jobs_data, result>>
    /\ UNCHANGED connVars

\* dict.get(key, default) on a job entry
JobGet(job, key, default) == IF key \in job.keys THEN job[key] ELSE default

\* job.get("description", "N/A")[:300] + "..."
Describe(job) ==
    LET d == IF "description" \in job.keys THEN job.description.chars ELSE NA
    IN SubSeq(d, 1, Min(Len(d), DescLimit)) \o Ellipsis

\* client.py:152-158, the listing built from one entry
Listing(job) ==
    [ title |-> JobGet(job, "title", NA),
      company |-> JobGet(job, "company_name", NA),
      location |-> JobGet(job, "location", NA),
      link |-> JobGet(job, "share_link", Hash),
      description |-> Describe(job) ]

\* building the listing raises: .get on an entry that is not a dict,
\* slicing a null description
ListingRaises(job) ==
    \/ ~job.isDict
    \/ "description" \in job.keys /\ job.description.null

\* client.py:151-158, one iteration; an exception leaves the loop through
\* the handler at line 161 with jobs_data as filled so far.
JobLoopStep ==
    /\ upPc = "loop"
    /\ pending # <<>>
    /\ IF ListingRaises(Head(pending))
         THEN /\ jobLog' = "error"
              /\ pending' = <<>>
              /\ upPc' = "respond"
              /\ UNCHANGED jobs_data
         ELSE /\ jobs_data' = Append(jobs_data, Listing(Head(pending)))
              /\ pending' = Tail(pending)
              /\ UNCHANGED <<jobLog, upPc>>
    /\ UNCHANGED <<extracted_text, parsed, skills, location, experience,
                   jobRole, params, resp, result>>
    /\ UNCHANGED connVars

\* client.py:164-173
Respond ==
    /\ \/ upPc = "respond"
       \/ upPc = "loop" /\ pending = <<>>
    /\ result' = [kind |-> "profile", status |-> 200, error |-> "",
                  raw |-> <<>>, skills |-> skills, location |-> location,
                  experience |-> experience, jobRole |-> jobRole,
                  jobs |-> jobs_data]
    /\ upPc' = "done"
    /\ UNCHANGED <<extracted_text, parsed, skills, location, experience,
                   jobRole, params, resp, pending, jobs_data, jobLog>>
    /\ UNCHANGED connVars

\* the next request starts with fresh locals
NextRequest ==
    /\ mainPc = "serving"
    /\ upPc = "done"
    /\ upPc' = "idle"
    /\ extracted_text' = <<>>
    /\ parsed' = Unset
    /\ skills' = Unset
    /\ location' = Unset
    /\ experience' = Unset
    /\ jobRole' = Unset
    /\ params' = [query |-> Unset, country |-> Unset]
    /\ resp' = NoResponse
    /\ pending' = <<>>
    /\ jobs_data' = <<>>
    /\ jobLog' = "none"
    /\ result' = NoResult
    /\ UNCHANGED connVars

\* client.py:182-186: app.run returns and main ends; main never calls
\* cleanup(), so the exit stack is left as it is.
Shutdown ==
    /\ mainPc = "serving"
    /\ upPc \in {"idle", "done"}
    /\ mainPc' = "exited"
    /\ UNCHANGED <<argv, session, exit_stack, child, handshake, toolsListed,
                   sessionCalls, mainError>>
    /\ UNCHANGED upVars

----------------------------------------------------------------------------

Init ==
    /\ mainPc = "start"
    /\ argv \in ArgvSet
    /\ session = "None"
    /\ exit_stack = <<>>
    /\ child = "none"
    /\ handshake = "none"
    /\ toolsListed = FALSE
    /\ sessionCalls = <<>>
    /\ mainError = "none"
    /\ upPc = "idle"
    /\ extracted_text = <<>>
    /\ parsed = Unset
    /\ skills = Unset
    /\ location = Unset
    /\ experience = Unset
    /\ jobRole = Unset
    /\ params = [query |-> Unset, country |-> Unset]
    /\ resp = NoResponse
    /\ pending = <<>>
    /\ jobs_data = <<>>
    /\ jobLog = "none"
    /\ result = NoResult

Next ==
    \/ MainStart
    \/ ValidateScript
    \/ SpawnTransport
    \/ EnterSession
    \/ Initialize
    \/ ListTools
    \/ Shutdown
    \/ Receive
    \/ AskModel
    \/ ParseText
    \/ ExtractFields
    \/ BuildParams
    \/ JobRequest
    \/ JobLoopStep
    \/ Respond
    \/ NextRequest

Spec == Init /\ [][Next]_vars

----------------------------------------------------------------------------
(* Properties *)

\* the handler has answered a request whose text went through ParseText
Answered == upPc = "done" /\ parsed # Unset

\* the cleaned text is a JSON value
TextParses == json_loads(CleanText(extracted_text)).ok

\* C1: whenever the extraction text does not parse after wrapper stripping,
\* the handler answers with the error form whose raw field is the extraction
\* text verbatim, and never with a profile of default values.
C1_ParseFailureKeepsRaw ==
    (Answered /\ ~TextParses) =>
        /\ result.kind = "error"
        /\ result.raw = extracted_text
        /\ result.skills # ListV(<<StrV("N/A")>>)

\* C2: a profile is returned only by an execution that issued
\* call_tool("extract_profile") on the session.
C2_ProfileOnlyAfterToolCall ==
    result.kind = "profile" =>
        \E i \in 1..Len(sessionCalls) :
            sessionCalls[i] = "call_tool:extract_profile"

\* C3: whenever the job stage fails (non-success status or a caught
\* exception), the response carries the profile fields unchanged and an
\* empty jobs list, never a partly filled one.
C3_JobFailureGivesEmptyJobs ==
    (upPc = "done" /\ result.kind = "profile" /\ jobLog # "none") =>
        /\ result.jobs = <<>>
        /\ result.skills = skills
        /\ result.location = location
        /\ result.experience = experience
        /\ result.jobRole = jobRole

\* the provider answered 200 with an object and no entry made the loop raise
JobStageSucceeded ==
    /\ upPc = "done"
    /\ result.kind = "profile"
    /\ ~resp.exc
    /\ resp.status = 200
    /\ resp.json = "dict"
    /\ jobLog = "none"

\* listing l is built from provider entry e: the copied fields with their
\* defaults, and a description that starts with the first 300 characters of
\* the entry's description
BuiltFrom(l, e) ==
    LET src == IF "description" \in e.keys THEN e.description.chars
               ELSE <<"N", "/", "A">>
        k == IF Len(src) <= 300 THEN Len(src) ELSE 300
    IN /\ l.title = IF "title" \in e.keys THEN e.title ELSE <<"N", "/", "A">>
       /\ l.company = IF "company_name" \in e.keys THEN e.company_name
                      ELSE <<"N", "/", "A">>
       /\ l.location = IF "location" \in e.keys THEN e.location
                       ELSE <<"N", "/", "A">>
       /\ l.link = IF "share_link" \in e.keys THEN e.share_link ELSE <<"#">>
       /\ Len(l.description) >= k
       /\ SubSeq(l.description, 1, k) = SubSeq(src, 1, k)

\* C4: the jobs list never has more than 5 entries, and after a successful
\* provider response with n entries it has exactly min(n, 5) entries, the
\* i-th built from the provider's i-th entry.
C4_JobsCappedInOrder ==
    /\ Len(jobs_data) <= 5
    /\ Len(result.jobs) <= 5
    /\ JobStageSucceeded =>
         LET n == Len(resp.results) IN
         /\ Len(result.jobs) = (IF n <= 5 THEN n ELSE 5)
         /\ \A i \in 1..Len(result.jobs) :
              BuiltFrom(result.jobs[i], resp.results[i])

C4_Witness ==
    /\ JobStageSucceeded
    /\ Len(resp.results) > 5
    /\ Len(result.jobs) = 5
    /\ result.jobs[5].title = <<"T", "5">>

\* C5: a listing's description is the source description unchanged when it
\* has at most 300 characters, and its first 300 characters followed by the
\* ellipsis when it is longer.
C5_EllipsisOnlyWhenTruncated ==
    (upPc = "done" /\ result.kind = "profile") =>
        \A i \in 1..Len(result.jobs) :
            LET e == resp.results[i]
                src == IF "description" \in e.keys THEN e.description.chars
                       ELSE <<"N", "/", "A">>
            IN result.jobs[i].description =
                 IF Len(src) <= 300 THEN src
                 ELSE SubSeq(src, 1, 300) \o <<".", ".", ".">>

\* the outbound query has been built
ParamsBuilt == params.query # Unset

\* C6: the query term is the extracted job title, replaced by "Software
\* Engineer" when that is "N/A"; the country hint is the extracted location,
\* replaced by "us" when that is "N/A"; each substitution looks at its own
\* field only.
C6_QueryDefaults ==
    ParamsBuilt =>
        /\ params.query = IF jobRole = StrV("N/A")
                            THEN StrV("Software Engineer") ELSE jobRole
        /\ params.country = IF location = StrV("N/A")
                              THEN StrV("us") ELSE location

C6_Witness ==
    /\ ParamsBuilt
    /\ jobRole = StrV("N/A")
    /\ location = StrV("Paris")
    /\ params.query = StrV("Software Engineer")
    /\ params.country = StrV("Paris")

\* the value under key in the parsed text, or the given default
Field(key, default) ==
    Get(json_loads(CleanText(extracted_text)).val, key, default)

\* C7: every text that parses to a JSON value, object or not, is answered
\* with a profile whose skills is a list (a list kept, a truthy value
\* wrapped, a falsy one replaced by ["N/A"]) and whose other fields are the
\* parsed ones or "N/A" when missing.
C7_EveryParsedValueGivesProfile ==
    (Answered /\ TextParses) =>
        /\ result.kind = "profile"
        /\ result.skills.kind = "list"
        /\ LET v == Field("skills", ListV(<<StrV("N/A")>>)) IN
             result.skills = IF v.kind = "list" THEN v
                             ELSE IF Truthy(v) THEN ListV(<<v>>)
                             ELSE ListV(<<StrV("N/A")>>)
        /\ result.location = Field("location", StrV("N/A"))
        /\ result.experience = Field("experience", StrV("N/A"))
        /\ result.jobRole = Field("jobRole", StrV("N/A"))

\* the script path ends in neither .py nor .js
Unrecognised ==
    /\ Len(argv) >= 1
    /\ LET p == argv[1]
           n == Len(p)
       IN ~(/\ n >= 3
            /\ <<p[n - 2], p[n - 1], p[n]>> \in
                 { <<".", "p", "y">>, <<".", "j", "s">> })

\* C8: with an unrecognised script path, connecting fails with ValueError
\* before the child is spawned and before a transport or session exists;
\* the session stays absent and nothing is registered on the exit stack.
C8_UnsupportedScriptFailsFirst ==
    Unrecognised =>
        /\ child = "none"
        /\ session = "None"
        /\ exit_stack = <<>>
        /\ sessionCalls = <<>>
        /\ mainPc \in {"start", "connect", "exited"}
        /\ mainPc = "exited" => mainError = "ValueError"

C8_Witness ==
    /\ Unrecognised
    /\ mainPc = "exited"
    /\ mainError = "ValueError"
    /\ child = "none"

\* C9: no execution ends with the transport still acquired: once main has
\* ended, a child that was spawned is terminated and the exit stack is
\* released.
C9_TransportReleasedAtExit ==
    (mainPc = "exited" /\ child # "none") =>
        /\ child = "terminated"
        /\ exit_stack = <<>>

\* C10: the session attribute refers to a session only once the handshake
\* is acknowledged and the tools are listed; after a failed handshake or
\* listing no session is exposed.
C10_NoPartialReady ==
    session # "None" => (handshake = "acked" /\ toolsListed)

====
